---- MODULE Spec2Model ----
(***************************************************************************)
(* A model of the JARVIS backend (src/main.py): one JSON document,         *)
(* memory.json, loaded and rewritten whole by the HTTP handlers /chat,     *)
(* /ask, /remember, /memory, /forget and by the helper remember_note.      *)
(*                                                                         *)
(* Text is a sequence of one-character strings, so that str.strip() and    *)
(* the substring relation are computed.  An optional JSON field is a       *)
(* sequence of length 0 (absent) or 1 (present).  saved_at is a logical    *)
(* clock: the n-th note created carries saved_at = n.                      *)
(*                                                                         *)
(* A handler is one step up to the point where it has read the file and    *)
(* computed what it will write (everything in between is local), followed  *)
(* by the two steps of save_memory: open(MEMORY_FILE, "w"), which empties  *)
(* the file, and json.dump + close, which fills it.                        *)
(***************************************************************************)
EXTENDS Integers, Sequences, FiniteSets, TLC

VARIABLES file, req, nreq, clock, mock, overlap, workers

vars == <<file, req, nreq, clock, mock, overlap, workers>>

(***************************************************************************)
(* Bounds of the model.                                                    *)
(***************************************************************************)
NumSlots == 2
MaxRequests == 3
MaxOverlapRequests == 2

Slots == 1..NumSlots

(***************************************************************************)
(* Request inputs.                                                         *)
(***************************************************************************)
Whitespace == {" ", "\t"}
MapCategories == {"profile", "preferences"}
Keys == {"name", "city"}

\* Runs with overlapping requests explore interleavings and draw from fewer
\* inputs than runs of a client that waits for each response.  A request
\* carries the fields its handler reads for its category: a key (and the
\* default score) for profile and preferences, an index or a score for notes.
RawContents == IF overlap THEN { <<"a">> } ELSE { <<" ">>, <<"a">>, <<" ", "b", "\t">> }
Messages == IF overlap THEN { <<"c", "a">> } ELSE { <<"c", "a">>, <<"b">> }
Prompts == IF overlap THEN { <<"c", "a">> } ELSE { <<" ">>, <<"c", "a">> }
\* the "score" of a request body: <<>> when the body has none, <<n>> for the
\* number n, <<"string", s>> for the JSON string s
ScoreInputs == IF overlap THEN { <<>> } ELSE { <<>>, <<7>>, <<"string", "high">> }
KeyInputs == IF overlap THEN { <<"name">> } ELSE { <<>> } \cup { <<k>> : k \in Keys }
IndexInputs == IF overlap THEN { <<0>> } ELSE { <<>>, <<-1>>, <<0>>, <<1>> }
\* a score accompanies the requests for notes, one value the entries of the maps
ScoreInputsOf(category) == IF category = "notes" THEN ScoreInputs ELSE { <<>> }
MapContents == IF overlap THEN { <<"a">> } ELSE { <<" ">>, <<"a">> }
RememberMapCategories == IF overlap THEN {"profile"} ELSE MapCategories
RememberSeqCategories == IF overlap THEN {"notes"} ELSE {"notes", "todo"}
ForgetMapCategories == IF overlap THEN {"profile"} ELSE MapCategories

DefaultScore == 5

(***************************************************************************)
(* Text.                                                                   *)
(***************************************************************************)
RECURSIVE LStrip(_)
LStrip(s) ==
    IF s # <<>> /\ Head(s) \in Whitespace THEN LStrip(Tail(s)) ELSE s

RECURSIVE RStrip(_)
RStrip(s) ==
    IF s # <<>> /\ s[Len(s)] \in Whitespace
    THEN RStrip(SubSeq(s, 1, Len(s) - 1))
    ELSE s

Strip(s) == RStrip(LStrip(s))

\* Python's `c in m` for strings
IsSubstring(c, m) ==
    \E i \in 0..(Len(m) - Len(c)) : SubSeq(m, i + 1, i + Len(c)) = c

(***************************************************************************)
(* The memory document: a mapping from top-level key to a JSON object      *)
(* (kind "map") or a JSON array (kind "seq").                              *)
(***************************************************************************)
NoEntries == [k \in {} |-> 0]
MapVal(m) == [kind |-> "map", val |-> m]
SeqVal(s) == [kind |-> "seq", val |-> s]

DefaultDoc ==
    [c \in {"profile", "preferences", "notes"} |->
        IF c = "notes" THEN SeqVal(<<>>) ELSE MapVal(NoEntries)]

\* The file: absent, empty (opened for writing and not yet written), the
\* JSON text of a document, or garbled (text that is no JSON document).
AbsentFile == [st |-> "absent"]
EmptyFile == [st |-> "empty"]
GarbledFile == [st |-> "garbled"]
DocFile(d) == [st |-> "doc", doc |-> d]
Unparseable(f) == f.st \in {"empty", "garbled"}

\* load_memory: ok = FALSE stands for json.load raising
load_memory(f) ==
    IF f.st = "absent" THEN [ok |-> TRUE, doc |-> DefaultDoc]
    ELSE IF f.st = "doc" THEN [ok |-> TRUE, doc |-> f.doc]
    ELSE [ok |-> FALSE]

\* d with d[c] = v, adding the key c when it is missing
Put(d, c, v) ==
    [x \in (DOMAIN d) \cup {c} |-> IF x = c THEN v ELSE d[x]]

\* as InsertDesc, but a note goes before the notes of its own score: the
\* order that sorting ascending and reversing the result gives
InsertDescBeforeTies(s, n) ==
    LET before == { i \in 1..Len(s) : s[i].score <= n.score }
        pos == IF before = {} THEN Len(s) + 1
               ELSE CHOOSE i \in before : \A j \in before : i <= j
    IN  SubSeq(s, 1, pos - 1) \o <<n>> \o SubSeq(s, pos, Len(s))

\* list.sort(key=score, reverse=True): stable, descending
InsertDesc(s, n) ==
    LET before == { i \in 1..Len(s) : s[i].score < n.score }
        pos == IF before = {} THEN Len(s) + 1
               ELSE CHOOSE i \in before : \A j \in before : i <= j
    IN  SubSeq(s, 1, pos - 1) \o <<n>> \o SubSeq(s, pos, Len(s))

RECURSIVE SortDesc(_)
SortDesc(s) ==
    IF s = <<>> THEN <<>>
    ELSE InsertDesc(SortDesc(SubSeq(s, 1, Len(s) - 1)), s[Len(s)])

SortNotes(d) == Put(d, "notes", SeqVal(SortDesc(d["notes"].val)))

\* as BumpNote, but the note also gets a new timestamp
BumpNote_restamping(n) ==
    [n EXCEPT !.tu = <<n.tu[1] + 1>>, !.score = n.score + 1, !.saved_at = n.saved_at + 1]

\* for note in memory["notes"]: note["times_used"] += 1; note["score"] += 1
\* ok = FALSE stands for the KeyError of a note without times_used
BumpNote(n) == [n EXCEPT !.tu = <<n.tu[1] + 1>>, !.score = n.score + 1]

Reinforce(d) ==
    LET ns == d["notes"].val
    IN  IF \E i \in 1..Len(ns) : ns[i].tu = <<>>
        THEN [ok |-> FALSE, doc |-> d]
        ELSE [ok |-> TRUE,
              doc |-> Put(d, "notes", SeqVal([i \in 1..Len(ns) |-> BumpNote(ns[i])]))]

(***************************************************************************)
(* Requests.  req[r] is the request being served on connection r, or the   *)
(* last one served there.  pre is the file as load_memory read it, mem the *)
(* handler's local `memory`.  post tells what the file was when the handler *)
(* returned: "pre" (as read, the handler wrote nothing), "mem" (the mem it  *)
(* saved) or "garbled".  prev is what the request served before it on the  *)
(* same connection left to compare with: the document a /remember with a   *)
(* key loaded, or the document a GET /memory returned.                     *)
(***************************************************************************)
NoMemory == <<>>
\* up: the completion call of the request succeeds (an input from the
\* completion service, read in live mode only)
NoArg ==
    [raw |-> <<>>, category |-> "", key |-> <<>>, index |-> <<>>, score |-> <<>>,
     up |-> TRUE]
NoResp == [http |-> 0, status |-> "", text |-> <<>>, count |-> 0]
Resp(status, text, count) == [http |-> 200, status |-> status, text |-> text, count |-> count]
\* an exception that leaves a handler: the framework answers 500
ServerError == [http |-> 500, status |-> "Internal Server Error", text |-> <<>>, count |-> 0]

NoPrev == [op |-> "none"]

IdleReq ==
    [op |-> "none", pc |-> "idle", arg |-> NoArg, ld |-> "none", pre |-> AbsentFile,
     mem |-> NoMemory, wrote |-> FALSE, post |-> "pre", resp |-> NoResp,
     prev |-> NoPrev]

\* the handler returned without calling save_memory
Returned(op, arg, ld, mem, resp) ==
    [op |-> op, pc |-> "done", arg |-> arg, ld |-> ld, pre |-> file,
     mem |-> mem, wrote |-> FALSE, post |-> "pre", resp |-> resp, prev |-> NoPrev]

\* the handler is about to call save_memory(mem) and will then return resp
Saving(op, arg, mem, resp) ==
    [op |-> op, pc |-> "loaded", arg |-> arg, ld |-> "ok", pre |-> file,
     mem |-> mem, wrote |-> FALSE, post |-> "pre", resp |-> resp, prev |-> NoPrev]

AsyncOps == {"ask", "remember", "forget"}
InProgress(r) == req[r].pc \in {"loaded", "opened"}
Free(r) == req[r].pc \in {"idle", "done"}
Limit == IF overlap THEN MaxOverlapRequests ELSE MaxRequests

\* A request can arrive on a connection that is not being served.  Without
\* overlap the client uses one connection and waits for each response.
CanBegin(r) ==
    /\ Free(r)
    /\ nreq < Limit
    /\ overlap \/ r = 1

\* The process that serves connection r.
Proc(r) == IF workers = 1 THEN 1 ELSE r

\* as EventLoopFree, for handlers that would run in threads like `def` ones
EventLoopFree_threaded(r) == TRUE

\* An `async def` handler runs on its process's event loop, and between its
\* load_memory and its return it awaits nothing: no other async handler of
\* that process runs in between.  A `def` handler runs in a thread.
EventLoopFree(r) ==
    \A r2 \in Slots \ {r} :
        (Proc(r2) = Proc(r) /\ req[r2].op \in AsyncOps) => ~InProgress(r2)

\* What the request that finished on connection r leaves for the next one.
Left(r) ==
    IF /\ req[r].op = "remember" /\ req[r].post = "mem"
       /\ req[r].arg.category \in MapCategories /\ req[r].arg.key # <<>>
    THEN [op |-> "remember", category |-> req[r].arg.category,
          key |-> req[r].arg.key[1], doc |-> load_memory(req[r].pre).doc]
    ELSE IF req[r].op = "get_memory" /\ req[r].resp.http = 200
    THEN [op |-> "get_memory", doc |-> req[r].mem]
    ELSE NoPrev

Begin(r, rec) ==
    /\ req' = [req EXCEPT ![r] = [rec EXCEPT !.prev = Left(r)]]
    /\ nreq' = nreq + 1
    /\ UNCHANGED <<file, mock, overlap, workers>>

(***************************************************************************)
(* save_memory                                                             *)
(***************************************************************************)
\* as SaveOpen, but before emptying the file the writer reads it again and
\* takes over the notes it does not hold
SaveOpenMerging(r) ==
    /\ req[r].pc = "loaded"
    /\ file' = EmptyFile
    /\ LET mine == req[r].mem["notes"].val
           theirs == IF file.st = "doc" THEN file.doc["notes"].val ELSE <<>>
           missing == { i \in 1..Len(theirs) :
                          \A j \in 1..Len(mine) : mine[j].saved_at # theirs[i].saved_at }
           taken == IF missing = {} THEN <<>>
                    ELSE <<theirs[CHOOSE i \in missing : TRUE]>>
       IN  req' = [req EXCEPT ![r].pc = "opened", ![r].wrote = TRUE,
                              ![r].mem = Put(@, "notes", SeqVal(mine \o taken))]
    /\ UNCHANGED <<nreq, clock, mock, overlap, workers>>

\* open(MEMORY_FILE, "w")
SaveOpen(r) ==
    /\ req[r].pc = "loaded"
    /\ file' = EmptyFile
    /\ req' = [req EXCEPT ![r].pc = "opened", ![r].wrote = TRUE]
    /\ UNCHANGED <<nreq, clock, mock, overlap, workers>>

\* What the file holds after d is written from offset 0 and the handle is
\* closed.  Over an empty file that is d.  Over text another writer put
\* there since this writer's open it is d when d's text is at least as long,
\* and otherwise d's text followed by the rest of the other text.
Written(f, d) ==
    IF f.st = "empty" THEN {DocFile(d)} ELSE {DocFile(d), GarbledFile}

\* json.dump(memory, f, indent=2), close, and the handler's return
SaveDump(r) ==
    /\ req[r].pc = "opened"
    /\ \E f \in Written(file, req[r].mem) :
        /\ file' = f
        /\ req' = [req EXCEPT ![r].pc = "done",
                               ![r].post = IF f.st = "doc" THEN "mem" ELSE "garbled"]
    /\ UNCHANGED <<nreq, clock, mock, overlap, workers>>

(***************************************************************************)
(* GET /                                                                   *)
(***************************************************************************)
root(r) ==
    /\ CanBegin(r)
    /\ Begin(r, Returned("root", NoArg, "none", NoMemory,
                         Resp("JARVIS backend online", <<>>, 0)))
    /\ UNCHANGED clock

(***************************************************************************)
(* POST /chat and POST /ask                                                *)
(***************************************************************************)
NotesOf(d) == d["notes"].val

\* as Converse, but the counters are raised and saved before the completion
\* call, so also when it fails
Converse_saving_first(op, arg, text, mockStatus, up) ==
    LET ld == load_memory(file)
        sorted == SortNotes(ld.doc)
        rf == Reinforce(sorted)
    IN  IF ~ld.ok THEN Returned(op, arg, "raised", NoMemory, ServerError)
        ELSE IF mock THEN
            IF rf.ok
            THEN Saving(op, arg, rf.doc, Resp(mockStatus, text, Len(NotesOf(rf.doc))))
            ELSE Returned(op, arg, "ok", sorted, ServerError)
        ELSE IF ~up /\ rf.ok THEN Saving(op, arg, rf.doc, Resp("Error: ", <<>>, 0))
        ELSE IF ~up THEN Returned(op, arg, "ok", sorted, Resp("Error: ", <<>>, 0))
        ELSE IF rf.ok THEN Saving(op, arg, rf.doc, Resp("completion", <<>>, 0))
        ELSE Returned(op, arg, "ok", sorted, Resp("Error: ", <<>>, 0))

\* The handler from load_memory on.  up: the completion call succeeded
\* (live mode only).  In mock mode a KeyError leaves the handler, in live
\* mode it is caught and becomes the reply.
Converse(op, arg, text, mockStatus, up) ==
    LET ld == load_memory(file)
        sorted == SortNotes(ld.doc)
        rf == Reinforce(sorted)
    IN  IF ~ld.ok THEN Returned(op, arg, "raised", NoMemory, ServerError)
        ELSE IF mock THEN
            IF rf.ok
            THEN Saving(op, arg, rf.doc, Resp(mockStatus, text, Len(NotesOf(rf.doc))))
            ELSE Returned(op, arg, "ok", sorted, ServerError)
        ELSE IF ~up THEN Returned(op, arg, "ok", sorted, Resp("Error: ", <<>>, 0))
        ELSE IF rf.ok THEN Saving(op, arg, rf.doc, Resp("completion", <<>>, 0))
        ELSE Returned(op, arg, "ok", sorted, Resp("Error: ", <<>>, 0))

chat(r, message) ==
    /\ CanBegin(r)
    /\ \E up \in IF mock THEN {TRUE} ELSE BOOLEAN :
        Begin(r, Converse("chat", [NoArg EXCEPT !.raw = message, !.up = up], message,
                          "(Mock) I received your message", up))
    /\ UNCHANGED clock

\* as ask, without the return of line 134
ask_without_refusal(r, rawPrompt) ==
    /\ CanBegin(r)
    /\ EventLoopFree(r)
    /\ \E up \in IF mock THEN {TRUE} ELSE BOOLEAN :
            Begin(r, Converse("ask", [NoArg EXCEPT !.raw = rawPrompt, !.up = up],
                              Strip(rawPrompt), "Certainly, master.", up))
    /\ UNCHANGED clock

ask(r, rawPrompt) ==
    /\ CanBegin(r)
    /\ EventLoopFree(r)
    /\ LET prompt == Strip(rawPrompt)
       IN  IF prompt = <<>>
           THEN Begin(r, Returned("ask", [NoArg EXCEPT !.raw = rawPrompt], "none", NoMemory,
                    Resp("I require an instruction, master. Silence is inefficient.", <<>>, 0)))
           ELSE \E up \in IF mock THEN {TRUE} ELSE BOOLEAN :
                    Begin(r, Converse("ask", [NoArg EXCEPT !.raw = rawPrompt, !.up = up], prompt,
                                      "Certainly, master.", up))
    /\ UNCHANGED clock

(***************************************************************************)
(* POST /remember                                                          *)
(***************************************************************************)
\* as ScoreOf, with the default score remember_note gives
ScoreOfNote(score) == IF score = <<>> THEN 0 ELSE score[1]

\* int(...) of line 179 returns: the score is absent, or a number
Convertible(score) == Len(score) < 2

\* int(data.get("score", 5))
ScoreOf(score) == IF score = <<>> THEN DefaultScore ELSE score[1]

\* as remember_update, with `memory[category] = []` not guarded by line 187
remember_update_reset(d, content, category, key, score, now) ==
    LET m == Put(d, category, SeqVal(<<>>))
    IN  IF category \in MapCategories
        THEN IF key # <<>>
             THEN Put(m, category,
                      MapVal(Put(m[category].val, key[1],
                                 [value |-> content, score |-> score])))
             ELSE m
        ELSE Put(m, category,
                 SeqVal(Append(m[category].val,
                               [content |-> content, score |-> score, saved_at |-> now,
                                tu |-> <<>>, category |-> <<>>])))

\* memory after lines 186-200: content is stripped and not empty
remember_update(d, content, category, key, score, now) ==
    LET m == IF category \notin DOMAIN d THEN Put(d, category, SeqVal(<<>>)) ELSE d
    IN  IF category \in MapCategories
        THEN IF key # <<>>
             THEN Put(m, category,
                      MapVal(Put(m[category].val, key[1],
                                 [value |-> content, score |-> score])))
             ELSE m
        ELSE Put(m, category,
                 SeqVal(Append(m[category].val,
                               [content |-> content, score |-> score, saved_at |-> now,
                                tu |-> <<>>, category |-> <<>>])))

remember(r, rawContent, category, key, score) ==
    /\ CanBegin(r)
    /\ EventLoopFree(r)
    /\ LET content == Strip(rawContent)
           arg == [NoArg EXCEPT !.raw = rawContent, !.category = category,
                                !.key = key, !.score = score]
           ld == load_memory(file)
       IN  IF ~Convertible(score)
           THEN /\ Begin(r, Returned("remember", arg, "none", NoMemory,
                                     Resp("Error", <<>>, 0)))
                /\ UNCHANGED clock
           ELSE IF content = <<>>
           THEN /\ Begin(r, Returned("remember", arg, "none", NoMemory,
                                     Resp("Nothing to remember, master.", <<>>, 0)))
                /\ UNCHANGED clock
           ELSE IF ~ld.ok
           THEN /\ Begin(r, Returned("remember", arg, "raised", NoMemory,
                                     Resp("Error", <<>>, 0)))
                /\ UNCHANGED clock
           ELSE /\ Begin(r, Saving("remember", arg,
                                   remember_update(ld.doc, content, category, key,
                                                   ScoreOf(score), clock + 1),
                                   Resp("Memory stored", <<>>, 0)))
                /\ clock' = IF category \in MapCategories THEN clock ELSE clock + 1

(***************************************************************************)
(* remember_note, the helper that stores a note with its counters.  No     *)
(* route calls it; it is how the module stores a note that has the         *)
(* times_used field chat and ask count in.  Its caller passes the content  *)
(* as it is to be stored and leaves category at its default.               *)
(***************************************************************************)
remember_note(r, content) ==
    /\ CanBegin(r)
    /\ LET arg == [NoArg EXCEPT !.raw = content, !.category = "notes"]
           ld == load_memory(file)
       IN  IF ~ld.ok
           THEN /\ Begin(r, Returned("remember_note", arg, "raised", NoMemory, ServerError))
                /\ UNCHANGED clock
           ELSE /\ Begin(r, Saving("remember_note", arg,
                        Put(ld.doc, "notes",
                            SeqVal(Append(NotesOf(ld.doc),
                                          [content |-> content, score |-> 0,
                                           saved_at |-> clock + 1, tu |-> <<0>>,
                                           category |-> <<"notes">>]))),
                        NoResp))
                /\ clock' = clock + 1

(***************************************************************************)
(* GET /memory: the response body is mem                                   *)
(***************************************************************************)
\* as get_memory, but the sorted document is saved before it is returned
get_memory_saving(r) ==
    /\ CanBegin(r)
    /\ LET ld == load_memory(file)
       IN  IF ~ld.ok
           THEN Begin(r, Returned("get_memory", NoArg, "raised", NoMemory, ServerError))
           ELSE Begin(r, Saving("get_memory", NoArg, SortNotes(ld.doc),
                                Resp("memory", <<>>, Len(NotesOf(ld.doc)))))
    /\ UNCHANGED clock

get_memory(r) ==
    /\ CanBegin(r)
    /\ LET ld == load_memory(file)
       IN  IF ~ld.ok
           THEN Begin(r, Returned("get_memory", NoArg, "raised", NoMemory, ServerError))
           ELSE Begin(r, Returned("get_memory", NoArg, "ok", SortNotes(ld.doc),
                                  Resp("memory", <<>>, Len(NotesOf(ld.doc)))))
    /\ UNCHANGED clock

(***************************************************************************)
(* POST /forget                                                            *)
(***************************************************************************)
\* list.pop(i) for the JSON index i: a negative i counts from the end
Pos(s, i) == IF i < 0 THEN Len(s) + i + 1 ELSE i + 1
Pop(s, i) == SubSeq(s, 1, Pos(s, i) - 1) \o SubSeq(s, Pos(s, i) + 1, Len(s))

\* as InRange, without the lower bound: every index list.pop accepts
InRangeFromEnd(index, notes) ==
    index # <<>> /\ -Len(notes) <= index[1] /\ index[1] < Len(notes)

\* index is not None and 0 <= index < len(memory["notes"])
InRange(index, notes) == index # <<>> /\ 0 <= index[1] /\ index[1] < Len(notes)

\* as Unknown, but tested against the keys of the document
UnknownToDocument(d, category) == category \notin DOMAIN d

\* category not in ["profile", "preferences", "notes"]
Unknown(d, category) == category \notin {"profile", "preferences", "notes"}

\* as forget_update, but forgetting a key empties its category
forget_update_clearing(d, category, key, index) ==
    IF category \in MapCategories
    THEN IF key # <<>> /\ key[1] \in DOMAIN d[category].val
         THEN Put(d, category, MapVal(NoEntries))
         ELSE d
    ELSE IF category = "notes" /\ InRange(index, NotesOf(d))
         THEN Put(d, "notes", SeqVal(Pop(NotesOf(d), index[1])))
         ELSE d

\* memory after lines 230-242, for a category of the three
forget_update(d, category, key, index) ==
    IF category \in MapCategories
    THEN IF key # <<>> /\ key[1] \in DOMAIN d[category].val
         THEN Put(d, category,
                  MapVal([k \in (DOMAIN d[category].val) \ {key[1]} |-> d[category].val[k]]))
         ELSE d
    ELSE IF category = "notes" /\ InRange(index, NotesOf(d))
         THEN Put(d, "notes", SeqVal(Pop(NotesOf(d), index[1])))
         ELSE d

\* the content the response message quotes
forget_removed(d, category, index) ==
    IF category = "notes" /\ InRange(index, NotesOf(d))
    THEN NotesOf(d)[Pos(NotesOf(d), index[1])].content
    ELSE <<>>

forget(r, category, key, index) ==
    /\ CanBegin(r)
    /\ EventLoopFree(r)
    /\ LET arg == [NoArg EXCEPT !.category = category, !.key = key, !.index = index]
           ld == load_memory(file)
       IN  IF ~ld.ok
           THEN Begin(r, Returned("forget", arg, "raised", NoMemory, ServerError))
           ELSE IF Unknown(ld.doc, category)
           THEN Begin(r, Returned("forget", arg, "ok", ld.doc,
                                  Resp("Unknown category, master.", <<>>, 0)))
           ELSE Begin(r, Saving("forget", arg,
                                forget_update(ld.doc, category, key, index),
                                Resp("Memory forgotten",
                                     forget_removed(ld.doc, category, index), 0)))
    /\ UNCHANGED clock

(***************************************************************************)
(* The specifications.  Spec: a client that waits for each response.       *)
(* SpecOverlap: requests overlap, served by one process or by one process  *)
(* per connection.                                                         *)
(* SpecStored: as Spec, the server starting on a file two /remember        *)
(* requests have left.                                                     *)
(***************************************************************************)
InitCommon ==
    /\ file = AbsentFile
    /\ req = [r \in Slots |-> IdleReq]
    /\ nreq = 0
    /\ clock = 0
    /\ mock \in BOOLEAN

Init ==
    /\ InitCommon
    /\ overlap = FALSE
    /\ workers = 1

InitOverlap ==
    /\ InitCommon
    /\ overlap = TRUE
    /\ workers \in {1, 2}

\* The notes file after POST /remember {"content": "a"} and then
\* POST /remember {"content": "b", "score": 7} on a fresh store.
StoredDoc ==
    remember_update(remember_update(DefaultDoc, <<"a">>, "notes", <<>>, DefaultScore, 1),
                    <<"b">>, "notes", <<>>, 7, 2)

\* A server started on that file.
InitStored ==
    /\ file = DocFile(StoredDoc)
    /\ req = [r \in Slots |-> IdleReq]
    /\ nreq = 0
    /\ clock = 2
    /\ mock \in BOOLEAN
    /\ overlap = FALSE
    /\ workers = 1

Next ==
    \/ \E r \in Slots : root(r)
    \/ \E r \in Slots, message \in Messages : chat(r, message)
    \/ \E r \in Slots, prompt \in Prompts : ask(r, prompt)
    \/ \E r \in Slots, content \in MapContents :
          \E category \in RememberMapCategories, key \in KeyInputs :
              remember(r, content, category, key, <<>>)
    \/ \E r \in Slots, content \in RawContents :
          \E category \in RememberSeqCategories :
              \E score \in ScoreInputsOf(category) :
                  remember(r, content, category, <<>>, score)
    \/ \E r \in Slots, content \in {Strip(c) : c \in RawContents} \ {<<>>} :
          remember_note(r, content)
    \/ \E r \in Slots : get_memory(r)
    \/ \E r \in Slots :
          \/ \E category \in ForgetMapCategories, key \in KeyInputs :
                forget(r, category, key, <<>>)
          \/ \E index \in IndexInputs : forget(r, "notes", <<>>, index)
          \/ forget(r, "todo", <<>>, <<>>)
    \/ \E r \in Slots : SaveOpen(r)
    \/ \E r \in Slots : SaveDump(r)

Spec == Init /\ [][Next]_vars

SpecOverlap == InitOverlap /\ [][Next]_vars

SpecStored == InitStored /\ [][Next]_vars

(***************************************************************************)
(* Vocabulary of the properties.                                           *)
(***************************************************************************)
Done(r) == req[r].pc = "done"
Quiet == \A r \in Slots : Free(r)

\* the document a load of file f yields
View(f) == load_memory(f).doc
PreDoc(r) == View(req[r].pre)
\* the file when request r returned
PostFile(r) ==
    IF req[r].post = "pre" THEN req[r].pre
    ELSE IF req[r].post = "mem" THEN DocFile(req[r].mem)
    ELSE GarbledFile
PostDoc(r) == View(PostFile(r))

\* the message, prompt or content the handler works with
TextOf(r) ==
    IF req[r].op \in {"ask", "remember"} THEN Strip(req[r].arg.raw) ELSE req[r].arg.raw

TimesUsed(n) == IF n.tu = <<>> THEN 0 ELSE n.tu[1]
Ids(notes) == { notes[i].saved_at : i \in 1..Len(notes) }
\* a note as /remember stores it: no counter, no category field
FromRemember(n) == n.tu = <<>> /\ n.category = <<>>

\* c is raw without its leading and trailing whitespace
Trimmed(c, raw) ==
    /\ c # <<>> => c[1] \notin Whitespace /\ c[Len(c)] \notin Whitespace
    /\ \E i \in 0..Len(raw), j \in 0..Len(raw) :
        /\ i + Len(c) + j = Len(raw)
        /\ SubSeq(raw, i + 1, i + Len(c)) = c
        /\ \A k \in (1..i) \cup ((i + Len(c) + 1)..Len(raw)) : raw[k] \in Whitespace

\* every top-level key but c holds in b what it holds in a
SameExcept(a, b, c) ==
    /\ DOMAIN a \cup {c} = DOMAIN b \cup {c}
    /\ \A x \in (DOMAIN a) \ {c} : b[x] = a[x]

(***************************************************************************)
(* C1.  A note stored through /remember whose content is a substring of    *)
(* the message of a later /chat has, once that /chat has returned, score   *)
(* and times_used one higher in the file than before the request.          *)
(***************************************************************************)
C1_ChatReinforcesRememberedNote ==
    \A r \in Slots :
        (Done(r) /\ req[r].op = "chat") =>
            \A i \in 1..Len(NotesOf(PreDoc(r))) :
                LET n == NotesOf(PreDoc(r))[i]
                IN  (FromRemember(n) /\ IsSubstring(n.content, TextOf(r))) =>
                        /\ PostFile(r).st = "doc"
                        /\ \E j \in 1..Len(NotesOf(PostDoc(r))) :
                            LET m == NotesOf(PostDoc(r))[j]
                            IN  /\ m.saved_at = n.saved_at
                                /\ m.score = n.score + 1
                                /\ TimesUsed(m) = TimesUsed(n) + 1

(***************************************************************************)
(* C2.  /chat and /ask leave score and times_used of every note whose      *)
(* content is not a substring of the message as they were in the file.     *)
(***************************************************************************)
C2_OnlyMatchingNotesReinforced ==
    \A r \in Slots :
        (Done(r) /\ req[r].op \in {"chat", "ask"} /\ req[r].ld = "ok") =>
            \A i \in 1..Len(NotesOf(PreDoc(r))) :
                LET n == NotesOf(PreDoc(r))[i]
                IN  ~IsSubstring(n.content, TextOf(r)) =>
                        \E j \in 1..Len(NotesOf(PostDoc(r))) :
                            LET m == NotesOf(PostDoc(r))[j]
                            IN  /\ m.saved_at = n.saved_at
                                /\ m.score = n.score
                                /\ m.tu = n.tu

(***************************************************************************)
(* C3.  /remember with non-empty content, category notes and no score      *)
(* appends one note, with the trimmed content and score 5, and changes     *)
(* nothing else in the document.                                           *)
(***************************************************************************)
IsPlainNoteRequest(r) ==
    /\ Done(r)
    /\ req[r].op = "remember"
    /\ Strip(req[r].arg.raw) # <<>>
    /\ req[r].arg.category = "notes"
    /\ req[r].arg.score = <<>>

C3_RememberAppendsOneNote ==
    \A r \in Slots :
        IsPlainNoteRequest(r) =>
            LET before == NotesOf(PreDoc(r))
                after == NotesOf(PostDoc(r))
            IN  /\ PostFile(r).st = "doc"
                /\ Len(after) = Len(before) + 1
                /\ SubSeq(after, 1, Len(before)) = before
                /\ Trimmed(after[Len(after)].content, req[r].arg.raw)
                /\ after[Len(after)].score = 5
                /\ SameExcept(PreDoc(r), PostDoc(r), "notes")

C3_Witness ==
    \E r \in Slots :
        /\ IsPlainNoteRequest(r)
        /\ req[r].arg.raw # Strip(req[r].arg.raw)
        /\ NotesOf(PreDoc(r)) # <<>>
        /\ DOMAIN PreDoc(r)["profile"].val # {}

(***************************************************************************)
(* C4.  Last writer wins: a note that a /remember stored after a /chat     *)
(* had loaded the document is not in the document that /chat then saves.   *)
(***************************************************************************)
StoredNoteId(r) == NotesOf(req[r].mem)[Len(NotesOf(req[r].mem))].saved_at

\* r2 is a /remember into notes that answered 'Memory stored', and its note
\* was not in the document the /chat r1 loaded
ChatMissedRemember(r1, r2) ==
    /\ Done(r1) /\ req[r1].op = "chat" /\ req[r1].wrote /\ PostFile(r1).st = "doc"
    /\ Done(r2) /\ req[r2].op = "remember" /\ req[r2].arg.category = "notes"
    /\ req[r2].resp.status = "Memory stored"
    /\ StoredNoteId(r2) \notin Ids(NotesOf(PreDoc(r1)))

C4_ChatSavesWhatItLoaded ==
    \A r1 \in Slots, r2 \in Slots :
        ChatMissedRemember(r1, r2) =>
            StoredNoteId(r2) \notin Ids(NotesOf(PostDoc(r1)))

\* the /remember saved its note, the /chat saved after it, and the note is gone
C4_LostUpdate ==
    \E r1 \in Slots, r2 \in Slots :
        /\ ChatMissedRemember(r1, r2)
        /\ PostFile(r2).st = "doc"
        /\ StoredNoteId(r2) \in Ids(NotesOf(PostDoc(r2)))
        /\ Quiet
        /\ file = PostFile(r1)
        /\ StoredNoteId(r2) \notin Ids(NotesOf(file.doc))

(***************************************************************************)
(* C5.  A handler that loads while the file is absent or unparseable gets  *)
(* the empty default document and returns a normal response.               *)
(***************************************************************************)
C5_LoadFailsSoft ==
    \A r \in Slots :
        (req[r].ld # "none" /\ (req[r].pre.st = "absent" \/ Unparseable(req[r].pre))) =>
            /\ req[r].ld = "ok"
            /\ Done(r) => req[r].resp.http = 200 /\ req[r].resp.status # "Error"

(***************************************************************************)
(* C6.  From no file on, whenever no request is being served the file, if  *)
(* there is one, is a document with the keys profile, preferences and      *)
(* notes, the first two mappings and the third a sequence.                 *)
(***************************************************************************)
C6_TopLevelKeys ==
    (Quiet /\ file.st # "absent") =>
        /\ file.st = "doc"
        /\ {"profile", "preferences", "notes"} \subseteq DOMAIN file.doc
        /\ file.doc["profile"].kind = "map"
        /\ file.doc["preferences"].kind = "map"
        /\ file.doc["notes"].kind = "seq"

C6_Witness ==
    /\ Quiet
    /\ file.st = "doc"
    /\ "todo" \in DOMAIN file.doc
    /\ \E r \in Slots :
        /\ req[r].op = "remember" /\ req[r].wrote
        /\ req[r].arg.category \in MapCategories
        /\ req[r].arg.key = <<>>

(***************************************************************************)
(* C7.  GET /memory lists the notes by score, highest first, and notes of  *)
(* equal score in the order in which they were remembered.                 *)
(***************************************************************************)
C7_ListingOrder ==
    \A r \in Slots :
        (Done(r) /\ req[r].op = "get_memory" /\ req[r].resp.http = 200) =>
            LET ns == NotesOf(req[r].mem)
            IN  \A i \in 1..Len(ns), j \in 1..Len(ns) :
                    i < j =>
                        /\ ns[i].score >= ns[j].score
                        /\ ns[i].score = ns[j].score => ns[i].saved_at < ns[j].saved_at

C7_Witness ==
    \E r \in Slots :
        /\ Done(r) /\ req[r].op = "get_memory" /\ req[r].resp.http = 200
        /\ Len(NotesOf(req[r].mem)) = 2
        /\ NotesOf(req[r].mem)[1].score = NotesOf(req[r].mem)[2].score

(***************************************************************************)
(* C8.  /remember into profile or preferences without a key does not       *)
(* answer 'Memory stored' and leaves the document as it was.               *)
(***************************************************************************)
C8_MissingKeyRejected ==
    \A r \in Slots :
        ( /\ Done(r) /\ req[r].op = "remember"
          /\ TextOf(r) # <<>>
          /\ req[r].arg.category \in MapCategories
          /\ req[r].arg.key = <<>> ) =>
            /\ req[r].resp.status # "Memory stored"
            /\ PostDoc(r) = PreDoc(r)

(***************************************************************************)
(* C9.  /forget with a category other than profile, preferences and notes  *)
(* answers 'Unknown category' and does not write the file, also when the   *)
(* document has that category.                                             *)
(***************************************************************************)
IsUnknownForget(r) ==
    /\ req[r].op = "forget"
    /\ req[r].arg.category \notin {"profile", "preferences", "notes"}

C9_ForgetUnknownCategory ==
    \A r \in Slots :
        IsUnknownForget(r) =>
            /\ Done(r)
            /\ ~req[r].wrote
            /\ PostFile(r) = req[r].pre
            /\ req[r].resp.status = "Unknown category, master."

C9_Witness ==
    \E r \in Slots :
        /\ IsUnknownForget(r)
        /\ Done(r)
        /\ req[r].pre.st = "doc"
        /\ req[r].arg.category \in DOMAIN PreDoc(r)
        /\ PreDoc(r)[req[r].arg.category].val # <<>>

(***************************************************************************)
(* C10.  /forget with category notes and an index below 0 or not below the *)
(* number of notes leaves the whole document as it was, and its response   *)
(* quotes no content.                                                      *)
(***************************************************************************)
IsOutOfRangeForget(r) ==
    /\ Done(r)
    /\ req[r].op = "forget"
    /\ req[r].arg.category = "notes"
    /\ req[r].arg.index # <<>>
    /\ \/ req[r].arg.index[1] < 0
       \/ req[r].arg.index[1] >= Len(NotesOf(PreDoc(r)))

C10_ForgetOutOfRange ==
    \A r \in Slots :
        IsOutOfRangeForget(r) =>
            /\ PostDoc(r) = PreDoc(r)
            /\ req[r].resp.text = <<>>

C10_Witness ==
    \E r \in Slots :
        /\ IsOutOfRangeForget(r)
        /\ req[r].arg.index[1] < 0
        /\ NotesOf(PreDoc(r)) # <<>>
        /\ req[r].wrote

(***************************************************************************)
(* C11.  /remember with category profile, a key k and non-empty content,   *)
(* followed by /forget with category profile and key k, leaves the profile *)
(* without k and with every other entry as before the two requests, and    *)
(* leaves the preferences and the notes as before the two requests.        *)
(***************************************************************************)
IsForgetAfterRemember(r) ==
    /\ Done(r)
    /\ req[r].op = "forget"
    /\ req[r].arg.category = "profile"
    /\ req[r].prev.op = "remember"
    /\ req[r].prev.category = "profile"
    /\ req[r].arg.key = <<req[r].prev.key>>

C11_RememberThenForgetKey ==
    \A r \in Slots :
        IsForgetAfterRemember(r) =>
            LET k == req[r].prev.key
                before == req[r].prev.doc
                after == PostDoc(r)
            IN  /\ PostFile(r).st = "doc"
                /\ DOMAIN after["profile"].val = (DOMAIN before["profile"].val) \ {k}
                /\ \A x \in DOMAIN after["profile"].val :
                        after["profile"].val[x] = before["profile"].val[x]
                /\ SameExcept(before, after, "profile")

C11_Witness ==
    \E r \in Slots :
        /\ IsForgetAfterRemember(r)
        /\ DOMAIN req[r].prev.doc["profile"].val # {}
        /\ req[r].prev.key \notin DOMAIN req[r].prev.doc["profile"].val


(***************************************************************************)
(* C12.  In live mode a /chat or /ask whose completion call fails is       *)
(* answered normally with the reply 'Error: <description>', and the file   *)
(* is when it returns exactly what it was when the request arrived: the    *)
(* handler has not written.                                                *)
(***************************************************************************)
IsFailedCompletion(r) ==
    /\ Done(r)
    /\ req[r].op \in {"chat", "ask"}
    /\ ~mock
    /\ req[r].ld = "ok"
    /\ ~req[r].arg.up

C12_CompletionFailureLeavesFile ==
    \A r \in Slots :
        IsFailedCompletion(r) =>
            /\ req[r].resp.http = 200
            /\ req[r].resp.status = "Error: "
            /\ ~req[r].wrote
            /\ PostFile(r) = req[r].pre

\* a failed completion with counted notes in the file, which a save would
\* have changed
C12_Witness ==
    \E r \in Slots :
        /\ IsFailedCompletion(r)
        /\ PreDoc(r)["notes"].val # <<>>
        /\ Reinforce(SortNotes(PreDoc(r))).ok

(***************************************************************************)
(* C13.  /remember with non-empty content and a category other than        *)
(* profile and preferences, in the document or not, appends one note to    *)
(* that category's sequence, with the given content and score and with     *)
(* times_used 0, and changes no other category.                            *)
(***************************************************************************)
IsSeqRemember(r) ==
    /\ Done(r)
    /\ req[r].op = "remember"
    /\ Strip(req[r].arg.raw) # <<>>
    /\ req[r].arg.category \notin MapCategories
    /\ Convertible(req[r].arg.score)

\* the sequence of category c in document d, none if d has no such category
SeqOf(d, c) == IF c \in DOMAIN d THEN d[c].val ELSE <<>>

C13_RememberAppendsCountedNote ==
    \A r \in Slots :
        IsSeqRemember(r) =>
            LET c == req[r].arg.category
                before == SeqOf(PreDoc(r), c)
                after == SeqOf(PostDoc(r), c)
            IN  /\ PostFile(r).st = "doc"
                /\ Len(after) = Len(before) + 1
                /\ SubSeq(after, 1, Len(before)) = before
                /\ after[Len(after)].content = TextOf(r)
                /\ after[Len(after)].score = ScoreOf(req[r].arg.score)
                /\ after[Len(after)].tu = <<0>>
                /\ SameExcept(PreDoc(r), PostDoc(r), c)

(***************************************************************************)
(* C14.  /remember with empty or whitespace-only content answers 'Nothing  *)
(* to remember' and leaves the file as it was, whatever category, key and  *)
(* score the request carries.                                              *)
(***************************************************************************)
IsEmptyRemember(r) ==
    /\ Done(r)
    /\ req[r].op = "remember"
    /\ Strip(req[r].arg.raw) = <<>>

C14_EmptyContentIsNoOp ==
    \A r \in Slots :
        IsEmptyRemember(r) =>
            /\ req[r].resp.http = 200
            /\ req[r].resp.status = "Nothing to remember, master."
            /\ ~req[r].wrote
            /\ PostFile(r) = req[r].pre

(***************************************************************************)
(* C15.  /ask with an empty or whitespace-only prompt answers the fixed    *)
(* refusal and neither loads nor saves: the file, and with it every note's *)
(* score and times_used, is what it was when the request arrived.          *)
(***************************************************************************)
IsEmptyAsk(r) ==
    /\ Done(r)
    /\ req[r].op = "ask"
    /\ Strip(req[r].arg.raw) = <<>>

C15_EmptyAskTouchesNothing ==
    \A r \in Slots :
        IsEmptyAsk(r) =>
            /\ req[r].resp.http = 200
            /\ req[r].resp.status = "I require an instruction, master. Silence is inefficient."
            /\ req[r].ld = "none"
            /\ ~req[r].wrote
            /\ PostFile(r) = req[r].pre

\* an empty /ask on a file with counted notes, which a non-empty one would
\* have reinforced
C15_Witness ==
    \E r \in Slots :
        /\ IsEmptyAsk(r)
        /\ req[r].arg.raw # <<>>
        /\ req[r].pre.st = "doc"
        /\ NotesOf(PreDoc(r)) # <<>>
        /\ Reinforce(SortNotes(PreDoc(r))).ok

(***************************************************************************)
(* C16.  A load made while exactly one save is in progress, with no other  *)
(* writer at work, yields a complete document: the one the file held       *)
(* before the save or the one being saved, never an empty or partly        *)
(* written file.                                                           *)
(***************************************************************************)
\* s is between the open and the close of its save_memory and no other
\* handler is between its load and the end of its save
OnlySaver(s) ==
    /\ req[s].pc = "opened"
    /\ \A t \in Slots \ {s} : ~InProgress(t)

\* in this step a request arrives on connection r and calls load_memory
LoadsInStep(r) ==
    /\ Free(r)
    /\ nreq' = nreq + 1
    /\ req'[r] # req[r]
    /\ req'[r].ld # "none"

C16_LoadDuringSaveSeesDocument ==
    [][\A r, s \in Slots :
          (OnlySaver(s) /\ LoadsInStep(r)) =>
              /\ req'[r].ld = "ok"
              /\ \/ file = req[s].pre
                 \/ file = DocFile(req[s].mem)]_vars

(***************************************************************************)
(* C17.  /forget with category notes and an in-range index i removes       *)
(* exactly the note that the GET /memory issued immediately before it      *)
(* lists at position i.                                                    *)
(***************************************************************************)
\* the notes the GET /memory before request r listed
Listed(r) == NotesOf(req[r].prev.doc)

IsForgetAfterListing(r) ==
    /\ Done(r)
    /\ req[r].op = "forget"
    /\ req[r].arg.category = "notes"
    /\ req[r].prev.op = "get_memory"
    /\ req[r].arg.index # <<>>
    /\ 0 <= req[r].arg.index[1]
    /\ req[r].arg.index[1] < Len(Listed(r))

C17_ForgetRemovesListedNote ==
    \A r \in Slots :
        IsForgetAfterListing(r) =>
            /\ PostFile(r).st = "doc"
            /\ Ids(NotesOf(PostDoc(r))) =
                   Ids(Listed(r)) \ {Listed(r)[req[r].arg.index[1] + 1].saved_at}

\* the file on which the server of SpecStored starts, which two /remember
\* requests produce under Spec
StoredDocInFile == file = DocFile(StoredDoc)

(***************************************************************************)
(* C18.  /chat and /ask change nothing in the file but the score, the      *)
(* times_used and the position of notes: after the request the file has    *)
(* as many notes as before, with the same contents and saved_at, and the   *)
(* same profile, preferences and other categories.                         *)
(***************************************************************************)
IsConversation(r) == Done(r) /\ req[r].op \in {"chat", "ask"}

\* what /chat and /ask are to leave of a note
Fixed(n) == [content |-> n.content, saved_at |-> n.saved_at, category |-> n.category]
FixedOf(notes) == { Fixed(notes[i]) : i \in 1..Len(notes) }

C18_ConversationFrame ==
    \A r \in Slots :
        IsConversation(r) =>
            LET before == NotesOf(PreDoc(r))
                after == NotesOf(PostDoc(r))
            IN  /\ PostFile(r).st \in {"absent", "doc"}
                /\ Len(after) = Len(before)
                /\ FixedOf(after) = FixedOf(before)
                /\ SameExcept(PreDoc(r), PostDoc(r), "notes")

\* a conversation that has saved raised counters, on a file with a profile
C18_Witness ==
    \E r \in Slots :
        /\ IsConversation(r)
        /\ req[r].wrote
        /\ NotesOf(PreDoc(r)) # <<>>
        /\ NotesOf(PostDoc(r)) # NotesOf(PreDoc(r))
        /\ DOMAIN PreDoc(r)["profile"].val # {}

(***************************************************************************)
(* C19.  Served by one event-loop process, two /remember requests on       *)
(* different connections never lose an update: no /remember or /forget     *)
(* runs between the load and the save of another, and once both have       *)
(* returned the file holds both entries.                                   *)
(***************************************************************************)
IsStoredRemember(r) ==
    /\ Done(r)
    /\ req[r].op = "remember"
    /\ req[r].resp.status = "Memory stored"

\* the entry the /remember r stored is in document d
EntryIn(r, d) ==
    LET c == req[r].arg.category
        stored == SeqOf(req[r].mem, c)
    IN  IF c \in MapCategories
        THEN /\ req[r].arg.key[1] \in DOMAIN d[c].val
             /\ d[c].val[req[r].arg.key[1]].value = TextOf(r)
        ELSE stored[Len(stored)].saved_at \in Ids(SeqOf(d, c))

\* the two requests are all the requests the server has had
OnlyRequests(r1, r2) == r1 # r2 /\ nreq = 2

C19_NoLostRemember ==
    workers = 1 =>
        /\ \A r1, r2 \in Slots :
              (r1 # r2 /\ req[r1].op \in {"remember", "forget"}
                       /\ req[r2].op \in {"remember", "forget"}) =>
                  ~(InProgress(r1) /\ InProgress(r2))
        /\ \A r1, r2 \in Slots :
              (OnlyRequests(r1, r2) /\ IsStoredRemember(r1) /\ IsStoredRemember(r2)) =>
                  /\ file.st = "doc"
                  /\ EntryIn(r1, file.doc)
                  /\ EntryIn(r2, file.doc)

C19_Witness ==
    \E r1, r2 \in Slots :
        /\ workers = 1
        /\ OnlyRequests(r1, r2)
        /\ IsStoredRemember(r1) /\ req[r1].arg.category = "notes"
        /\ IsStoredRemember(r2) /\ req[r2].arg.category = "notes"

(***************************************************************************)
(* C20.  GET /memory and GET / never modify the file: the step that serves *)
(* one leaves the file as it is and ends the request without a save, so    *)
(* the sorted order GET /memory returns is not written back.               *)
(***************************************************************************)
IsRead(rec) == rec.op \in {"get_memory", "root"}

C20_ReadsLeaveFile ==
    [][\A r \in Slots :
          (req'[r] # req[r] /\ IsRead(req'[r])) =>
              /\ file' = file
              /\ req'[r].pc = "done"
              /\ ~req'[r].wrote]_vars

\* a GET /memory has returned the notes in another order than the file
\* stores them, and the file is the one it read
C20_Witness ==
    \E r \in Slots :
        /\ Done(r)
        /\ req[r].op = "get_memory"
        /\ req[r].ld = "ok"
        /\ NotesOf(req[r].mem) # NotesOf(PreDoc(r))
        /\ file = req[r].pre

====
